---- MODULE Spec2Model ----
(***************************************************************************)
(* Outgoing ball handling of one ball device                               *)
(* (mpf/devices/ball_device/outgoing_balls_handler.py).                    *)
(*                                                                         *)
(* One OutgoingBallsHandler owns an asyncio FIFO queue of EjectRequests    *)
(* and one long-lived coroutine (_run) which dequeues a request and runs   *)
(* the eject loop (_ejecting) on it.  Every action below is one atomic     *)
(* segment of that coroutine (the code between two suspension points) or   *)
(* one step of the environment: a caller enqueueing, the ball-left and     *)
(* ball-returned sensors, the target confirming, the clock advancing.  The *)
(* answers of the ball_count_handler are inputs of the steps asking it.    *)
(***************************************************************************)
EXTENDS Integers, Sequences, FiniteSets, TLC

(* ---- bounds of the model ---------------------------------------------- *)
MaxRequests == 2
MaxTries == 1
MaxEjectTimeout == 1
MaxBalls == 1

(* ---- program constants ------------------------------------------------ *)
\* Python None of max_tries / eject_timeout (EjectRequest.__init__).
None == -1
\* timeout = 60 of the late-confirmation race.
LateConfirmTimeout == 60
\* def _abort_eject(self, eject_request): one parameter besides self ...
AbortEjectParams == 1
\* ... called as self._abort_eject(eject_request, eject_try): two arguments.
AbortEjectArgs == 2
\* def _failed_eject(self, eject_request): one parameter besides self ...
FailedEjectParams == 1
\* ... called as self._failed_eject(eject_request, eject_try): two arguments.
FailedEjectArgs == 2

VARIABLES
    requests,           \* every EjectRequest created so far, in creation order
    eject_queue,        \* self._eject_queue: ids of the requests waiting
    pc,                 \* where the _run coroutine is suspended
    eject_request,      \* the request _ejecting works on (0: none)
    eject_try,          \* local eject_try of _ejecting
    ball_eject_process, \* local ball_eject_process of _eject_ball (0: none)
    timeout,            \* deadline of the wait the coroutine is suspended in
    waited,             \* time spent in that wait (0, or the deadline)
    handles,            \* every EjectProcessCounter returned by start_eject()
    incoming_balls,     \* IncomingBalls registered at the target
    ball_count,         \* local ball_count of _ejecting (None: not asked)
    exception,          \* exception which ended _run ("none": still alive)
    stop_calls,         \* number of ball_device.stop() calls
    serviced,           \* ids of the requests dequeued by _run, in order
    outcome,            \* how the eject loop of each request ended
    calls               \* every call made to a collaborator, in order

vars == <<requests, eject_queue, pc, eject_request, eject_try,
          ball_eject_process, timeout, waited, handles, incoming_balls,
          ball_count, exception, stop_calls, serviced, outcome, calls>>

(* ---- values ----------------------------------------------------------- *)
MaxTriesValues == {None} \cup (0..MaxTries)
EjectTimeoutValues == {None} \cup (1..MaxEjectTimeout)

\* Python truth value of an optional integer: None and 0 are false.
Truthy(x) == x # None /\ x # 0

\* asyncio.Future.done(): a resolved and a cancelled future are both done.
Done(future) == future \in {"done", "cancelled"}

\* Util.first(..., cancel_others): a future still pending when the wait
\* ends is cancelled when cancel_others is true and left alone otherwise.
CancelOthers(future, cancel_others) ==
    IF cancel_others /\ future = "pending" THEN "cancelled" ELSE future

\* Util.first(..., timeout): the deadline has passed.
Expired == timeout # None /\ waited >= timeout

\* EjectRequest.__init__ followed by the caller setting the two budgets.
EjectRequest(max_tries, eject_timeout) ==
    [max_tries |-> max_tries, eject_timeout |-> eject_timeout,
     confirm_future |-> "pending"]

\* ball_count_handler.start_eject(): a fresh EjectProcessCounter.
EjectProcessCounter(r) ==
    [request |-> r, ball_left |-> "pending", ball_returned |-> FALSE,
     ball_return_future |-> "none"]

Call(op, r, h, n) == [op |-> op, request |-> r, handle |-> h, try |-> n]

RECURSIVE CountCalls(_, _, _)
CountCalls(log, op, h) ==
    IF log = <<>> THEN 0
    ELSE (IF Head(log).op = op /\ Head(log).handle = h THEN 1 ELSE 0)
         + CountCalls(Tail(log), op, h)

RECURSIVE CountOp(_, _)
CountOp(log, op) ==
    IF log = <<>> THEN 0
    ELSE (IF Head(log).op = op THEN 1 ELSE 0) + CountOp(Tail(log), op)

RECURSIVE CountOpOf(_, _, _)
CountOpOf(log, op, r) ==
    IF log = <<>> THEN 0
    ELSE (IF Head(log).op = op /\ Head(log).request = r THEN 1 ELSE 0)
         + CountOpOf(Tail(log), op, r)

(* ---- initial state ---------------------------------------------------- *)
Init ==
    /\ requests = <<>>
    /\ eject_queue = <<>>
    /\ pc = "run"
    /\ eject_request = 0
    /\ eject_try = 0
    /\ ball_eject_process = 0
    /\ timeout = None
    /\ waited = 0
    /\ handles = <<>>
    /\ incoming_balls = <<>>
    /\ ball_count = None
    /\ exception = "none"
    /\ stop_calls = 0
    /\ serviced = <<>>
    /\ outcome = <<>>
    /\ calls = <<>>

(* ---- the caller ------------------------------------------------------- *)
\* add_eject_to_queue: put_nowait appends at the tail of the queue.
add_eject_to_queue ==
    /\ Len(requests) < MaxRequests
    /\ \E max_tries \in MaxTriesValues, eject_timeout \in EjectTimeoutValues :
          requests' = Append(requests, EjectRequest(max_tries, eject_timeout))
    /\ eject_queue' = Append(eject_queue, Len(requests) + 1)
    /\ outcome' = Append(outcome, "queued")
    /\ UNCHANGED <<pc, eject_request, eject_try, ball_eject_process, timeout,
                   waited, handles, incoming_balls, ball_count, exception,
                   stop_calls, serviced, calls>>

(* ---- the environment --------------------------------------------------- *)
\* The sensor sees the ejected ball leave: wait_for_ball_left() resolves.
ball_left ==
    /\ pc = "wait_for_ball_left"
    /\ handles[ball_eject_process].ball_left = "pending"
    /\ handles' = [handles EXCEPT ![ball_eject_process].ball_left = "done"]
    /\ UNCHANGED <<requests, eject_queue, pc, eject_request, eject_try,
                   ball_eject_process, timeout, waited, incoming_balls,
                   ball_count, exception, stop_calls, serviced, outcome,
                   calls>>

\* The ejected ball falls back into the device: is_ball_returned() becomes
\* true and a pending wait_for_ball_return() future resolves.
ball_returned ==
    /\ pc \in {"wait_for_eject_confirm", "late_confirm_or_missing"}
    /\ ~handles[ball_eject_process].ball_returned
    /\ handles' = [handles EXCEPT
          ![ball_eject_process].ball_returned = TRUE,
          ![ball_eject_process].ball_return_future =
              IF @ = "pending" THEN "done" ELSE @]
    /\ UNCHANGED <<requests, eject_queue, pc, eject_request, eject_try,
                   ball_eject_process, timeout, waited, incoming_balls,
                   ball_count, exception, stop_calls, serviced, outcome,
                   calls>>

\* The target sees a ball it expects and resolves the confirm_future of an
\* IncomingBall registered with it (a future is resolved at most once).
\* Every IncomingBall which holds that future at this instant sees it
\* resolved: "confirmed" records that the registration was there when the
\* target confirmed.
target_confirm ==
    /\ \E i \in 1..Len(incoming_balls) :
          LET r == incoming_balls[i].confirm_future IN
          /\ requests[r].confirm_future = "pending"
          /\ requests' = [requests EXCEPT ![r].confirm_future = "done"]
          /\ incoming_balls' =
                 [j \in 1..Len(incoming_balls) |->
                     IF incoming_balls[j].confirm_future = r
                     THEN [incoming_balls[j] EXCEPT !.confirmed = TRUE]
                     ELSE incoming_balls[j]]
    /\ UNCHANGED <<eject_queue, pc, eject_request, eject_try,
                   ball_eject_process, timeout, waited, handles,
                   ball_count, exception, stop_calls, serviced,
                   outcome, calls>>

\* Time passes while the coroutine is suspended in a wait which has a
\* deadline, until that deadline is reached.  A wait is observed at two
\* instants: before its deadline (every signal which fires then fires in
\* time) and at it.
tick ==
    /\ pc \in {"wait_for_ball_left", "wait_for_eject_confirm",
               "late_confirm_or_missing"}
    /\ timeout # None
    /\ waited < timeout
    /\ waited' = timeout
    /\ UNCHANGED <<requests, eject_queue, pc, eject_request, eject_try,
                   ball_eject_process, timeout, handles, incoming_balls,
                   ball_count, exception, stop_calls, serviced, outcome, calls>>

(* ---- how a segment of the coroutine ends ------------------------------ *)

\* Raise, had _run caught what _ejecting raises and gone on with its loop.
Raise_caught(exc) ==
    /\ pc' = "run"
    /\ exception' = exc
    /\ outcome' = [outcome EXCEPT ![eject_request] = exc]
    /\ ball_eject_process' = 0
    /\ timeout' = None
    /\ waited' = 0
    /\ UNCHANGED <<eject_request, eject_try, stop_calls>>

\* An exception leaves _ejecting and _run: the coroutine is over.
Raise(exc) ==
    /\ pc' = "raised"
    /\ exception' = exc
    /\ outcome' = [outcome EXCEPT ![eject_request] = exc]
    /\ ball_eject_process' = 0
    /\ timeout' = None
    /\ waited' = 0
    /\ UNCHANGED <<eject_request, eject_try, stop_calls>>

\* _ejecting returns; _run loops and waits on self._eject_queue.get().
Return(result) ==
    /\ pc' = "run"
    /\ outcome' = [outcome EXCEPT ![eject_request] = result]
    /\ eject_request' = 0
    /\ eject_try' = 0
    /\ ball_eject_process' = 0
    /\ timeout' = None
    /\ waited' = 0
    /\ UNCHANGED exception

\* The top of the loop of _ejecting: suspended in wait_for_ball().
WaitForBall(log) ==
    /\ pc' = "wait_for_ball"
    /\ calls' = Append(log, Call("wait_for_ball", eject_request, 0, eject_try))
    /\ ball_eject_process' = 0
    /\ timeout' = None
    /\ waited' = 0
    /\ UNCHANGED <<eject_request, exception, outcome>>


\* ejecting_done, had _ejecting lacked the return after a successful
\* attempt and fallen through to the handling of a failed one.
ejecting_done_falls_through(log) ==
    /\ calls' = Append(log, Call("failed_eject", eject_request, 0, eject_try))
    /\ Raise("TypeError")

\* _ejecting, "eject is done. return to main loop".
ejecting_done(log) ==
    /\ calls' = log
    /\ Return("success")
    /\ UNCHANGED stop_calls

\* _ejecting after ball_count == 0: self._abort_eject(eject_request,
\* eject_try), then "continue".  The call passes one argument more than
\* _abort_eject accepts, which Python answers with a TypeError.
ejecting_abort(log) ==
    LET log1 == Append(log, Call("abort_eject", eject_request, 0, eject_try))
    IN  IF AbortEjectArgs # AbortEjectParams
        THEN /\ calls' = log1
             /\ Raise("TypeError")
        ELSE /\ WaitForBall(log1)
             /\ UNCHANGED <<eject_try, stop_calls>>


\* ejecting_failed, had _failed_eject accepted the try index it is called
\* with.
ejecting_failed_notified(log) ==
    LET log1 == Append(log, Call("failed_eject", eject_request, 0, eject_try))
        max_tries == requests[eject_request].max_tries
    IN  IF Truthy(max_tries) /\ eject_try + 1 > max_tries
        THEN /\ calls' = Append(log1, Call("stop", eject_request, 0,
                                           eject_try + 1))
             /\ stop_calls' = stop_calls + 1
             /\ Return("stopped")
        ELSE /\ WaitForBall(log1)
             /\ eject_try' = eject_try + 1
             /\ UNCHANGED stop_calls

\* _ejecting after a failed attempt: self._failed_eject(eject_request,
\* eject_try), eject_try += 1, then stop the device and return when
\* max_tries is set and exceeded, else loop.  The call passes one argument
\* more than _failed_eject accepts, which Python answers with a TypeError.
ejecting_failed(log) ==
    LET log1 == Append(log, Call("failed_eject", eject_request, 0, eject_try))
        max_tries == requests[eject_request].max_tries
    IN  IF FailedEjectArgs # FailedEjectParams
        THEN /\ calls' = log1
             /\ Raise("TypeError")
        ELSE IF Truthy(max_tries) /\ eject_try + 1 > max_tries
        THEN /\ calls' = Append(log1, Call("stop", eject_request, 0,
                                           eject_try + 1))
             /\ stop_calls' = stop_calls + 1
             /\ Return("stopped")
        ELSE /\ WaitForBall(log1)
             /\ eject_try' = eject_try + 1
             /\ UNCHANGED stop_calls

(* ---- the coroutine _run / _ejecting ----------------------------------- *)
\* run, had the queue handed over its newest request instead of its oldest.
run_newest_first ==
    LET newest == eject_queue[Len(eject_queue)] IN
    /\ pc = "run"
    /\ eject_queue # <<>>
    /\ eject_queue' = SubSeq(eject_queue, 1, Len(eject_queue) - 1)
    /\ eject_request' = newest
    /\ serviced' = Append(serviced, newest)
    /\ outcome' = [outcome EXCEPT ![newest] = "ejecting"]
    /\ eject_try' = 0
    /\ pc' = "wait_for_ball"
    /\ calls' = Append(calls, Call("wait_for_ball", newest, 0, 0))
    /\ UNCHANGED <<requests, ball_eject_process, timeout, waited, handles,
                   incoming_balls, ball_count, exception, stop_calls>>

\* _run: the queue hands over its oldest request; _ejecting starts with
\* eject_try = 0 and suspends in wait_for_ball().
run ==
    /\ pc = "run"
    /\ eject_queue # <<>>
    /\ eject_queue' = Tail(eject_queue)
    /\ eject_request' = Head(eject_queue)
    /\ serviced' = Append(serviced, Head(eject_queue))
    /\ outcome' = [outcome EXCEPT ![Head(eject_queue)] = "ejecting"]
    /\ eject_try' = 0
    /\ pc' = "wait_for_ball"
    /\ calls' = Append(calls, Call("wait_for_ball", Head(eject_queue), 0, 0))
    /\ UNCHANGED <<requests, ball_eject_process, timeout, waited, handles,
                   incoming_balls, ball_count, exception, stop_calls>>

\* _ejecting: wait_for_ball() returns (the ball_count_handler decides when
\* the device holds a ball); the coroutine goes on to
\* _prepare_eject(eject_request).
ejecting_wait_for_ball ==
    /\ pc = "wait_for_ball"
    /\ pc' = "prepare_eject"
    /\ ball_count' = None
    /\ calls' = Append(calls, Call("prepare_eject", eject_request, 0,
                                   eject_try))
    /\ UNCHANGED <<requests, eject_queue, eject_request, eject_try,
                   ball_eject_process, timeout, waited, handles,
                   incoming_balls, exception, stop_calls, serviced, outcome>>

\* _ejecting: _prepare_eject returns; the coroutine asks for the ball count.
ejecting_prepare_eject ==
    /\ pc = "prepare_eject"
    /\ pc' = "get_ball_count"
    /\ UNCHANGED <<requests, eject_queue, eject_request, eject_try,
                   ball_eject_process, timeout, waited, handles,
                   incoming_balls, ball_count, exception, stop_calls, serviced,
                   outcome, calls>>

\* _ejecting: get_ball_count() answers 0: the ball was lost in the meantime.
ejecting_ball_count_zero ==
    /\ pc = "get_ball_count"
    /\ ball_count' = 0
    /\ ejecting_abort(calls)
    /\ UNCHANGED <<requests, eject_queue, handles, incoming_balls, serviced>>


\* eject_ball, had _eject_ball fired the ejector before asking the
\* ball_count_handler for the handle.
eject_ball_fire_first(r, n) ==
    LET h == Len(handles) + 1 IN
    /\ handles' = Append(handles, EjectProcessCounter(r))
    /\ ball_eject_process' = h
    /\ calls' = calls \o <<Call("eject_one_ball", r, h, n),
                           Call("start_eject", r, h, n)>>
    /\ timeout' = requests[r].eject_timeout
    /\ waited' = 0
    /\ pc' = "wait_for_ball_left"

\* _eject_ball up to its first suspension: start_eject() opens a handle,
\* the ejector is fired with the try index, and the coroutine waits for
\* wait_for_ball_left() with the request's eject_timeout.
eject_ball(r, n) ==
    LET h == Len(handles) + 1 IN
    /\ handles' = Append(handles, EjectProcessCounter(r))
    /\ ball_eject_process' = h
    /\ calls' = calls \o <<Call("start_eject", r, h, n),
                           Call("eject_one_ball", r, h, n)>>
    /\ timeout' = requests[r].eject_timeout
    /\ waited' = 0
    /\ pc' = "wait_for_ball_left"

\* _ejecting: get_ball_count() answers a positive count (the answer is
\* the ball_count_handler's): "Ejecting ball".
ejecting_eject_ball ==
    /\ pc = "get_ball_count"
    /\ \E count \in 1..MaxBalls : ball_count' = count
    /\ eject_ball(eject_request, eject_try)
    /\ UNCHANGED <<requests, eject_queue, eject_request, eject_try,
                   incoming_balls, exception, stop_calls, serviced, outcome>>


\* add_incoming_ball_to_target, had it built the IncomingBall without
\* handing it to target.add_incoming_ball().
add_incoming_ball_to_target_unregistered(r) ==
    incoming_balls

\* _add_incoming_ball_to_target: an IncomingBall whose source is this
\* device and whose confirm_future is the request's own future.
add_incoming_ball_to_target(r) ==
    Append(incoming_balls, [source |-> "ball_device", confirm_future |-> r,
                            confirmed |-> FALSE])

\* _eject_ball, else branch: the ball left in time; the IncomingBall is
\* registered and _handle_confirm waits for the confirmation with the
\* request's eject_timeout (cancel_others=False).
eject_ball_left ==
    /\ pc = "wait_for_ball_left"
    /\ Done(handles[ball_eject_process].ball_left)
    /\ incoming_balls' = add_incoming_ball_to_target(eject_request)
    /\ calls' = Append(calls, Call("add_incoming_ball", eject_request,
                                   ball_eject_process, eject_try))
    /\ timeout' = requests[eject_request].eject_timeout
    /\ waited' = 0
    /\ pc' = "wait_for_eject_confirm"
    /\ ball_count' = None
    /\ UNCHANGED <<requests, eject_queue, eject_request, eject_try,
                   ball_eject_process, handles, exception, stop_calls,
                   serviced, outcome>>

\* _eject_ball, except asyncio.TimeoutError: the ball did not leave.  The
\* wait cancels the ball-left future (cancel_others defaults to true), the
\* handle is told eject_failed() and the attempt returns False.
eject_ball_timeout ==
    /\ pc = "wait_for_ball_left"
    /\ Expired
    /\ ~Done(handles[ball_eject_process].ball_left)
    /\ handles' = [handles EXCEPT ![ball_eject_process].ball_left =
                      CancelOthers(@, TRUE)]
    /\ ejecting_failed(Append(calls, Call("eject_failed", eject_request,
                                          ball_eject_process, eject_try)))
    /\ ball_count' = None
    /\ UNCHANGED <<requests, eject_queue, incoming_balls, serviced>>

\* _handle_confirm, else branch: the confirmation wait ended because the
\* confirm_future is done: eject_done(), the attempt returns True.
handle_confirm_done ==
    /\ pc = "wait_for_eject_confirm"
    /\ Done(requests[eject_request].confirm_future)
    /\ ejecting_done(Append(calls, Call("eject_done", eject_request,
                                        ball_eject_process, eject_try)))
    /\ UNCHANGED <<requests, eject_queue, handles, incoming_balls, ball_count,
                   serviced>>

\* handle_confirm_timeout, had the confirmation wait been started without
\* cancel_others=False.
handle_confirm_timeout_cancel_others ==
    /\ pc = "wait_for_eject_confirm"
    /\ Expired
    /\ ~Done(requests[eject_request].confirm_future)
    /\ requests' = [requests EXCEPT ![eject_request].confirm_future =
                       CancelOthers(@, TRUE)]

\* _handle_confirm: the confirmation wait timed out.  It was started with
\* cancel_others=False, which decides what happens to the confirm_future.
handle_confirm_timeout ==
    /\ pc = "wait_for_eject_confirm"
    /\ Expired
    /\ ~Done(requests[eject_request].confirm_future)
    /\ requests' = [requests EXCEPT ![eject_request].confirm_future =
                       CancelOthers(@, FALSE)]

\* _handle_confirm, except branch with is_ball_returned(): eject_failed(),
\* the attempt returns False.
handle_confirm_ball_returned ==
    /\ handle_confirm_timeout
    /\ handles[ball_eject_process].ball_returned
    /\ ejecting_failed(Append(calls, Call("eject_failed", eject_request,
                                          ball_eject_process, eject_try)))
    /\ UNCHANGED <<eject_queue, handles, incoming_balls, ball_count, serviced>>

\* handle_confirm_late, had the late-confirmation race been started without
\* a timeout.
handle_confirm_late_no_deadline ==
    /\ handle_confirm_timeout
    /\ ~handles[ball_eject_process].ball_returned
    /\ handles' = [handles EXCEPT
                      ![ball_eject_process].ball_return_future = "pending"]
    /\ timeout' = None
    /\ waited' = 0
    /\ pc' = "late_confirm_or_missing"
    /\ UNCHANGED <<eject_queue, eject_request, eject_try, ball_eject_process,
                   incoming_balls, ball_count, exception, stop_calls, serviced,
                   outcome, calls>>


\* handle_confirm_late, had _handle_confirm not asked is_ball_returned()
\* before starting the late-confirmation race.
handle_confirm_late_unchecked ==
    /\ handle_confirm_timeout
    /\ handles' = [handles EXCEPT
                      ![ball_eject_process].ball_return_future = "pending"]
    /\ timeout' = LateConfirmTimeout
    /\ waited' = 0
    /\ pc' = "late_confirm_or_missing"
    /\ UNCHANGED <<eject_queue, eject_request, eject_try, ball_eject_process,
                   incoming_balls, ball_count, exception, stop_calls, serviced,
                   outcome, calls>>

\* _handle_confirm, except branch without a returned ball:
\* _handle_late_confirm_or_missing asks the handle for its ball-return
\* future and races it against the confirm_future for 60 time units.
handle_confirm_late ==
    /\ handle_confirm_timeout
    /\ ~handles[ball_eject_process].ball_returned
    /\ handles' = [handles EXCEPT
                      ![ball_eject_process].ball_return_future = "pending"]
    /\ timeout' = LateConfirmTimeout
    /\ waited' = 0
    /\ pc' = "late_confirm_or_missing"
    /\ UNCHANGED <<eject_queue, eject_request, eject_try, ball_eject_process,
                   incoming_balls, ball_count, exception, stop_calls, serviced,
                   outcome, calls>>

\* late_confirm_success, had it returned True without telling the handle
\* eject_done().
late_confirm_success_no_done ==
    /\ pc = "late_confirm_or_missing"
    /\ Done(requests[eject_request].confirm_future)
    /\ handles' = [handles EXCEPT ![ball_eject_process].ball_return_future =
                      CancelOthers(@, TRUE)]
    /\ ejecting_done(calls)
    /\ UNCHANGED <<requests, eject_queue, incoming_balls, ball_count, serviced>>

\* _handle_late_confirm_or_missing, event == eject_success_future: the race
\* (cancel_others defaults to true) cancels a still pending ball-return
\* future; eject_done(), the attempt returns True.
late_confirm_success ==
    /\ pc = "late_confirm_or_missing"
    /\ Done(requests[eject_request].confirm_future)
    /\ handles' = [handles EXCEPT ![ball_eject_process].ball_return_future =
                      CancelOthers(@, TRUE)]
    /\ ejecting_done(Append(calls, Call("eject_done", eject_request,
                                        ball_eject_process, eject_try)))
    /\ UNCHANGED <<requests, eject_queue, incoming_balls, ball_count, serviced>>

\* _handle_late_confirm_or_missing, event == ball_return_future: the race
\* cancels a still pending confirm_future; eject_failed(), the attempt
\* returns False.
late_confirm_ball_returned ==
    /\ pc = "late_confirm_or_missing"
    /\ Done(handles[ball_eject_process].ball_return_future)
    /\ requests' = [requests EXCEPT ![eject_request].confirm_future =
                       CancelOthers(@, TRUE)]
    /\ ejecting_failed(Append(calls, Call("eject_failed", eject_request,
                                          ball_eject_process, eject_try)))
    /\ UNCHANGED <<eject_queue, handles, incoming_balls, ball_count, serviced>>

\* late_confirm_missing, had the timeout of the race been handled like a
\* returned ball: eject_failed(), the attempt returns False.
late_confirm_missing_as_failure ==
    /\ pc = "late_confirm_or_missing"
    /\ Expired
    /\ ~Done(requests[eject_request].confirm_future)
    /\ ~Done(handles[ball_eject_process].ball_return_future)
    /\ requests' = [requests EXCEPT ![eject_request].confirm_future =
                       CancelOthers(@, TRUE)]
    /\ handles' = [handles EXCEPT ![ball_eject_process].ball_return_future =
                      CancelOthers(@, TRUE)]
    /\ ejecting_failed(Append(calls, Call("eject_failed", eject_request,
                                          ball_eject_process, eject_try)))
    /\ UNCHANGED <<eject_queue, incoming_balls, ball_count, serviced>>

\* _handle_late_confirm_or_missing, except asyncio.TimeoutError: neither
\* future completed in 60 time units; the race cancels both and
\* AssertionError("handle lost ball") is raised.
late_confirm_missing ==
    /\ pc = "late_confirm_or_missing"
    /\ Expired
    /\ ~Done(requests[eject_request].confirm_future)
    /\ ~Done(handles[ball_eject_process].ball_return_future)
    /\ requests' = [requests EXCEPT ![eject_request].confirm_future =
                       CancelOthers(@, TRUE)]
    /\ handles' = [handles EXCEPT ![ball_eject_process].ball_return_future =
                      CancelOthers(@, TRUE)]
    /\ Raise("AssertionError")
    /\ UNCHANGED <<eject_queue, incoming_balls, ball_count, serviced, calls>>

(* ---- specifications ---------------------------------------------------- *)
Next ==
    \/ add_eject_to_queue
    \/ ball_left
    \/ ball_returned
    \/ target_confirm
    \/ tick
    \/ run
    \/ ejecting_wait_for_ball
    \/ ejecting_prepare_eject
    \/ ejecting_ball_count_zero
    \/ ejecting_eject_ball
    \/ eject_ball_left
    \/ eject_ball_timeout
    \/ handle_confirm_done
    \/ handle_confirm_ball_returned
    \/ handle_confirm_late
    \/ late_confirm_success
    \/ late_confirm_ball_returned
    \/ late_confirm_missing

Spec == Init /\ [][Next]_vars

\* Any step of the coroutine: the event loop resuming it.
resume ==
    \/ run
    \/ ejecting_wait_for_ball
    \/ ejecting_prepare_eject
    \/ ejecting_ball_count_zero
    \/ ejecting_eject_ball
    \/ eject_ball_left
    \/ eject_ball_timeout
    \/ handle_confirm_done
    \/ handle_confirm_ball_returned
    \/ handle_confirm_late
    \/ late_confirm_success
    \/ late_confirm_ball_returned
    \/ late_confirm_missing

\* The event loop keeps going: the clock of a pending deadline runs, and
\* the coroutine is resumed whenever what it waits for is there (a request
\* in the queue, a completed future, an elapsed deadline; a ball is
\* eventually there whenever the loop waits for one and _prepare_eject
\* eventually returns).  The clock of a wait runs out in one step, so the
\* one condition is as strong as one for the clock and one for the
\* coroutine.
FairSpec ==
    /\ Spec
    /\ WF_vars(tick \/ resume)

(* ---- vocabulary of the properties -------------------------------------- *)
Requests == 1..Len(requests)
Handles == 1..Len(handles)

\* Number of eject_failed() / eject_done() calls made on handle h.
EjectFailedCalls(h) == CountCalls(calls, "eject_failed", h)
EjectDoneCalls(h) == CountCalls(calls, "eject_done", h)
Terminated(h) == EjectFailedCalls(h) + EjectDoneCalls(h) >= 1

\* Number of attempts of request r which ended in failure, and number of
\* times the ejector was fired for it.
FailedAttempts(r) == CountOpOf(calls, "eject_failed", r)
Ejects(r) == CountOpOf(calls, "eject_one_ball", r)
Stops(r) == CountOpOf(calls, "stop", r)

(* ---- C1 ---------------------------------------------------------------- *)
\* C1: a request with max_tries = N >= 1 fires the ejector at most N+1
\* times, the device is stopped exactly when the (N+1)-th attempt has
\* failed, exactly once, and until then a request whose attempts failed
\* is still in its eject loop (it is retried, nothing else ends the loop).
C1_StopOnceAfterBudget ==
    \A r \in Requests :
        LET N == requests[r].max_tries IN
        N >= 1 =>
            /\ Ejects(r) <= N + 1
            /\ Stops(r) = (IF FailedAttempts(r) = N + 1 THEN 1 ELSE 0)
            /\ outcome[r] = "stopped" <=> Stops(r) = 1
            /\ (FailedAttempts(r) \in 1..N) => outcome[r] = "ejecting"

(* ---- C2 ---------------------------------------------------------------- *)
\* C2: whenever an attempt of a request ends in failure (eject_failed() is
\* called), the request's confirm_future is still pending afterwards:
\* neither resolved nor cancelled.
C2_ConfirmPendingAfterFailure ==
    [][\A r \in Requests :
          CountOpOf(calls', "eject_failed", r) > FailedAttempts(r)
              => requests'[r].confirm_future = "pending"]_vars

(* ---- C3 ---------------------------------------------------------------- *)
\* C3: on every handle at most one of eject_failed() / eject_done() is
\* ever called, at most once, and once the attempt of the handle is over
\* exactly one call has been made.
C3_ExactlyOneTerminalCall ==
    \A h \in Handles :
        /\ EjectFailedCalls(h) + EjectDoneCalls(h) <= 1
        /\ h # ball_eject_process
              => EjectFailedCalls(h) + EjectDoneCalls(h) = 1

(* ---- C4 ---------------------------------------------------------------- *)
\* C4: at most one handle is open at any time: every handle opened before
\* the newest one has been terminated by eject_failed() / eject_done().
C4_OneAttemptInFlight ==
    /\ \A h \in Handles : h < Len(handles) => Terminated(h)
    /\ Cardinality({h \in Handles : ~Terminated(h)}) <= 1
    /\ ball_eject_process \in {0, Len(handles)}

\* A second attempt was opened on the device, and is still in flight.
C4_Witness ==
    /\ Len(handles) = 2
    /\ ball_eject_process = 2
    /\ ~Terminated(2)

(* ---- C5 ---------------------------------------------------------------- *)
\* C5: requests are dequeued in the order they were enqueued, each once,
\* none skipped, and every request dequeued before the newest one has
\* ended in success or device stop.
C5_EnqueueOrder ==
    /\ \A i \in 1..Len(serviced) : serviced[i] = i
    /\ \A i \in 1..Len(eject_queue) : eject_queue[i] = Len(serviced) + i
    /\ Len(serviced) + Len(eject_queue) = Len(requests)
    /\ \A i \in 1..Len(serviced) :
          i < Len(serviced) => outcome[serviced[i]] \in {"success", "stopped"}
    /\ eject_request # 0 => eject_request = serviced[Len(serviced)]

\* Two requests were queued together and the worker has reached the second.
C5_Witness ==
    /\ Len(serviced) = 2
    /\ outcome[1] = "success"
    /\ outcome[2] = "ejecting"

(* ---- C6 ---------------------------------------------------------------- *)
\* C6: when get_ball_count() answers 0, the step of the eject loop calls
\* _abort_eject, keeps eject_try, opens no handle, fires no ejector, does
\* not stop the device, and is back in wait_for_ball() for the same request.
C6_LostBallRestartsLoop ==
    [][(pc = "get_ball_count" /\ pc' # pc /\ ball_count' = 0) =>
          /\ pc' = "wait_for_ball"
          /\ eject_request' = eject_request
          /\ eject_try' = eject_try
          /\ stop_calls' = stop_calls
          /\ CountOp(calls', "abort_eject") = CountOp(calls, "abort_eject") + 1
          /\ CountOp(calls', "start_eject") = CountOp(calls, "start_eject")
          /\ CountOp(calls', "eject_one_ball")
                = CountOp(calls, "eject_one_ball")]_vars

(* ---- C7 ---------------------------------------------------------------- *)
\* The late-confirmation race has run for its 60 time units and neither
\* the confirmation nor ball-returned has completed.
LostBall ==
    /\ pc = "late_confirm_or_missing"
    /\ waited = LateConfirmTimeout
    /\ ~Done(requests[eject_request].confirm_future)
    /\ ~Done(handles[ball_eject_process].ball_return_future)

\* C7: the step taken on a lost ball raises the lost-ball fault
\* (AssertionError), which is not an attempt failure: no eject_failed(),
\* no _failed_eject, no stop(), eject_try unchanged; and once the fault is
\* raised no further call of any kind is made for that request.
C7_LostBallFaultIsDistinct ==
    [][/\ (LostBall /\ pc' # pc) =>
             /\ pc' = "raised"
             /\ exception' = "AssertionError"
             /\ outcome'[eject_request] = "AssertionError"
             /\ calls' = calls
             /\ eject_try' = eject_try
             /\ stop_calls' = stop_calls
       /\ exception = "AssertionError" =>
             /\ \A op \in {"eject_one_ball", "start_eject", "failed_eject",
                           "eject_failed", "stop", "wait_for_ball"} :
                   CountOpOf(calls', op, eject_request)
                      = CountOpOf(calls, op, eject_request)
             /\ outcome'[eject_request] = "AssertionError"]_vars

\* The lost-ball fault was raised for a request whose only attempt fired
\* the ejector once and was never reported failed.
C7_Witness ==
    /\ exception = "AssertionError"
    /\ Ejects(eject_request) = 1
    /\ FailedAttempts(eject_request) = 0
    /\ CountOpOf(calls, "failed_eject", eject_request) = 0
    /\ stop_calls = 0

(* ---- C8 ---------------------------------------------------------------- *)
\* C8: wherever the eject loop is suspended, other than in wait_for_ball()
\* and _prepare_eject, the suspension has a deadline.
C8_EverySuspensionHasDeadline ==
    pc \in {"get_ball_count", "wait_for_ball_left", "wait_for_eject_confirm",
            "late_confirm_or_missing"} => timeout # None

\* An attempt is in flight for a request whose eject_timeout is set.
TimedAttempt ==
    /\ ball_eject_process # 0
    /\ requests[eject_request].eject_timeout # None

\* C8 as amended: the late-confirmation race always has the deadline of 60;
\* the ball-left wait and the confirmation wait have the request's
\* eject_timeout as deadline, which is none when it is unset; no other
\* suspension of the loop has a deadline; and an attempt of a request whose
\* eject_timeout is set always ends, whatever signals fire or do not fire.
C8_DeadlinesOfTheLoop ==
    /\ [](/\ pc = "late_confirm_or_missing" => timeout = LateConfirmTimeout
          /\ pc \in {"wait_for_ball_left", "wait_for_eject_confirm"}
                => timeout = requests[eject_request].eject_timeout
          /\ pc \in {"run", "wait_for_ball", "prepare_eject",
                     "get_ball_count", "raised"} => timeout = None)
    /\ TimedAttempt ~> ball_eject_process = 0

\* An attempt of a request whose eject_timeout is set has ended on the
\* ball-left deadline alone, no signal having fired.
C8_Witness ==
    /\ Len(handles) >= 1
    /\ handles[1].ball_left = "cancelled"
    /\ requests[1].eject_timeout # None
    /\ ball_eject_process = 0

(* ---- C9 ---------------------------------------------------------------- *)
\* C9: every dequeued request whose max_tries is set (and whose
\* eject_timeout is set, so that its waits have timers) eventually ends as
\* delivered, as device stopped, or with the lost-ball fault.
C9_DefiniteOutcome ==
    \A r \in 1..MaxRequests :
        (/\ r \in Requests
         /\ outcome[r] = "ejecting"
         /\ Truthy(requests[r].max_tries)
         /\ requests[r].eject_timeout # None)
        ~> (/\ r \in Requests
            /\ outcome[r] \in {"success", "stopped", "AssertionError"})

(* ---- C10 --------------------------------------------------------------- *)
\* C10: when the confirmation wait times out and the late-confirmation race
\* starts, the confirm_future is still pending; and when the target has
\* resolved it during the race and ball-returned has not fired, the step
\* of the race ends the attempt in success with exactly one eject_done()
\* and no eject_failed().
C10_LateConfirmSucceeds ==
    [][/\ (pc = "wait_for_eject_confirm" /\ pc' = "late_confirm_or_missing")
             => requests'[eject_request].confirm_future = "pending"
       /\ (/\ pc = "late_confirm_or_missing"
           /\ requests[eject_request].confirm_future = "done"
           /\ handles[ball_eject_process].ball_return_future # "done"
           /\ pc' # pc) =>
             /\ outcome'[eject_request] = "success"
             /\ CountCalls(calls', "eject_done", ball_eject_process) = 1
             /\ CountCalls(calls', "eject_failed", ball_eject_process) = 0]_vars

\* A request was delivered by a confirmation which won the late race (the
\* race cancelled the ball-return future it was racing against).
C10_Witness ==
    \E h \in Handles :
        /\ handles[h].ball_return_future = "cancelled"
        /\ EjectDoneCalls(h) = 1
        /\ EjectFailedCalls(h) = 0
        /\ outcome[handles[h].request] = "success"
        /\ requests[handles[h].request].confirm_future = "done"

(* ---- C11 --------------------------------------------------------------- *)
\* The confirmation wait of _handle_confirm has timed out without a
\* confirmation and the handle says the ball is back.
ReturnedAtTimeout ==
    /\ pc = "wait_for_eject_confirm"
    /\ Expired
    /\ ~Done(requests[eject_request].confirm_future)
    /\ handles[ball_eject_process].ball_returned

\* C11: when the ball left, the confirmation wait timed out and
\* is_ball_returned() is true at that timeout, the attempt fails right
\* there: eject_failed() is called once on the handle and eject_done() is
\* not, the attempt returns False to _ejecting, and the late-confirmation
\* race is not entered (no ball-return future is asked for, no wait of 60).
C11_ReturnedBallShortCircuit ==
    [][(ReturnedAtTimeout /\ pc' # pc) =>
          LET h == ball_eject_process
              r == eject_request
          IN  /\ CountCalls(calls', "eject_failed", h) = 1
              /\ CountCalls(calls', "eject_done", h) = 0
              /\ CountOpOf(calls', "failed_eject", r)
                     = CountOpOf(calls, "failed_eject", r) + 1
              /\ handles'[h].ball_return_future = "none"
              /\ pc' # "late_confirm_or_missing"
              /\ timeout' # LateConfirmTimeout]_vars

\* An attempt which ended by that short-circuit.
C11_Witness ==
    \E h \in Handles :
        /\ handles[h].ball_left = "done"
        /\ handles[h].ball_returned
        /\ handles[h].ball_return_future = "none"
        /\ EjectFailedCalls(h) = 1
        /\ EjectDoneCalls(h) = 0
        /\ requests[handles[h].request].confirm_future = "pending"

(* ---- C12 --------------------------------------------------------------- *)
\* The first attempt of a request is suspended in the confirmation wait of
\* _handle_confirm (so its ball has left in time) and the target has
\* resolved the confirm_future.
ConfirmedInTime ==
    /\ pc = "wait_for_eject_confirm"
    /\ eject_try = 0
    /\ requests[eject_request].confirm_future = "done"

\* C12: on the happy path (ball present, ball left and confirmation both in
\* time) the attempt succeeds: eject_done() is called once on the handle and
\* eject_failed() never, the ejector was fired once, the loop ends without a
\* failed-eject notification, a further try or stop(), and the worker is
\* back at the queue with the request delivered.
C12_HappyPath ==
    [][(ConfirmedInTime /\ pc' # pc) =>
          LET h == ball_eject_process
              r == eject_request
          IN  /\ CountCalls(calls', "eject_done", h) = 1
              /\ CountCalls(calls', "eject_failed", h) = 0
              /\ CountOpOf(calls', "eject_one_ball", r) = 1
              /\ CountOpOf(calls', "failed_eject", r) = 0
              /\ CountOpOf(calls', "stop", r) = 0
              /\ \A i \in 1..Len(calls') :
                    calls'[i].request = r => calls'[i].try = 0
              /\ stop_calls' = stop_calls
              /\ exception' = "none"
              /\ outcome'[r] = "success"
              /\ pc' = "run"
              /\ eject_request' = 0
              /\ eject_queue' = eject_queue]_vars

\* A request delivered by the confirmation wait of _handle_confirm itself.
C12_Witness ==
    \E h \in Handles :
        /\ pc = "run"
        /\ handles[h].ball_left = "done"
        /\ handles[h].ball_return_future = "none"
        /\ EjectDoneCalls(h) = 1
        /\ outcome[handles[h].request] = "success"
        /\ requests[handles[h].request].confirm_future = "done"

(* ---- C13 --------------------------------------------------------------- *)
\* C13: a step which ends an attempt in failure (eject_failed() is called)
\* or which aborts after get_ball_count() answered 0 lets no exception out
\* of _ejecting, and the only exception which ever leaves the worker loop
\* is the lost-ball fault raised when the late-confirmation race times out.
C13_OnlyLostBallFaultEscapes ==
    [][/\ (\/ CountOp(calls', "eject_failed") > CountOp(calls, "eject_failed")
           \/ (pc = "get_ball_count" /\ pc' # pc /\ ball_count' = 0))
          => (exception' = "none" /\ pc' # "raised")
       /\ (exception = "none" /\ exception' # "none")
          => (LostBall /\ exception' = "AssertionError")]_vars

(* ---- C15 --------------------------------------------------------------- *)
\* C15: a request whose max_tries is None or 0 never gets the device
\* stopped and is never abandoned: whatever number of its attempts failed,
\* it is still in its eject loop until it is delivered or the lost-ball
\* fault is raised.
C15_UnlimitedBudgetKeepsRetrying ==
    \A r \in Requests :
        ~Truthy(requests[r].max_tries) =>
            /\ Stops(r) = 0
            /\ FailedAttempts(r) >= 1 =>
                  outcome[r] \in {"ejecting", "success", "AssertionError"}

(* ---- C16 --------------------------------------------------------------- *)
\* The calls of _add_incoming_ball_to_target, in the order they were made,
\* and their number for the attempt of handle h.
Registrations == SelectSeq(calls, LAMBDA c : c.op = "add_incoming_ball")
RegistrationsOf(h) == CountCalls(calls, "add_incoming_ball", h)

\* The attempt of handle h is over.
AttemptOver(h) == h # ball_eject_process

\* The attempt of handle h got past its ball-left wait with the ball gone.
BallLeft(h) ==
    /\ handles[h].ball_left = "done"
    /\ ~(h = ball_eject_process /\ pc = "wait_for_ball_left")

\* Every registration at the target is an IncomingBall whose source is this
\* device and whose confirm_future is the request's own future.
RegistrationsWellFormed ==
    /\ Len(incoming_balls) = Len(Registrations)
    /\ \A i \in 1..Len(incoming_balls) :
          /\ incoming_balls[i].source = "ball_device"
          /\ incoming_balls[i].confirm_future = Registrations[i].request

\* C16 as stated: every attempt makes exactly one such registration, so a
\* request whose attempts are all over has as many registrations as
\* attempts.
C16_OneRegistrationPerAttempt ==
    /\ RegistrationsWellFormed
    /\ \A h \in Handles : AttemptOver(h) => RegistrationsOf(h) = 1
    /\ \A r \in Requests :
          r # eject_request =>
              CountOpOf(calls, "add_incoming_ball", r) = Ejects(r)

\* C16, amended: an attempt makes one such registration when its ball
\* left and none when its ball-left wait timed out, so the registrations of
\* a request are as many as its attempts whose ball left.
C16_OneRegistrationPerBallLeft ==
    /\ RegistrationsWellFormed
    /\ \A h \in Handles :
          RegistrationsOf(h) = (IF BallLeft(h) THEN 1 ELSE 0)
    /\ \A r \in Requests :
          CountOpOf(calls, "add_incoming_ball", r)
             = Cardinality({h \in Handles :
                               handles[h].request = r /\ BallLeft(h)})

\* One attempt whose ball left and was registered, and one whose ball-left
\* wait timed out and which registered nothing.
C16_Witness ==
    \E h1, h2 \in Handles :
        /\ BallLeft(h1)
        /\ RegistrationsOf(h1) = 1
        /\ handles[h2].ball_left = "cancelled"
        /\ EjectFailedCalls(h2) = 1
        /\ RegistrationsOf(h2) = 0

(* ---- C17 --------------------------------------------------------------- *)
\* The retry budget of the request in the loop is not used up by one more
\* failure.
BudgetLeft ==
    LET max_tries == requests[eject_request].max_tries
    IN  ~Truthy(max_tries) \/ eject_try + 1 <= max_tries

\* C17: a step in which an attempt fails while the budget is not used up
\* makes the failed-eject notification, adds one to eject_try and is back
\* in wait_for_ball() for the same request; and the k-th firing of the
\* ejector for a request carries the try index k - 1.
C17_FailureStartsNextTry ==
    [][/\ (/\ eject_request # 0
           /\ CountOpOf(calls', "eject_failed", eject_request)
                 > CountOpOf(calls, "eject_failed", eject_request)
           /\ BudgetLeft)
          => /\ CountOpOf(calls', "failed_eject", eject_request)
                   = CountOpOf(calls, "failed_eject", eject_request) + 1
             /\ eject_try' = eject_try + 1
             /\ eject_request' = eject_request
             /\ pc' = "wait_for_ball"
       /\ \A i \in 1..Len(calls') :
             calls'[i].op = "eject_one_ball" =>
                 calls'[i].try = CountOpOf(SubSeq(calls', 1, i - 1),
                                           "eject_one_ball",
                                           calls'[i].request)]_vars

(* ---- C18 --------------------------------------------------------------- *)
\* The ball-left wait of _eject_ball has timed out.
BallLeftTimeout ==
    /\ pc = "wait_for_ball_left"
    /\ Expired
    /\ ~Done(handles[ball_eject_process].ball_left)

\* C18: within an attempt the handle is opened (start_eject) before the
\* ejector is fired, and the ejector is fired once per handle; the
\* IncomingBall is registered only by the step which ends the ball-left
\* wait with the ball gone, and that step begins the confirmation wait; an
\* attempt whose ball-left wait timed out calls eject_failed(), returns
\* False, registers nothing and never waits for the confirmation.
C18_OrderWithinAttempt ==
    [][/\ Len(handles') > Len(handles) =>
             LET h == Len(handles') IN
             /\ Len(handles') = Len(handles) + 1
             /\ calls' = calls \o
                   <<Call("start_eject", eject_request, h, eject_try),
                     Call("eject_one_ball", eject_request, h, eject_try)>>
             /\ pc' = "wait_for_ball_left"
       /\ \A h \in 1..Len(handles') :
             CountCalls(calls', "eject_one_ball", h) = 1
       /\ Len(incoming_balls') > Len(incoming_balls) =>
             /\ pc = "wait_for_ball_left"
             /\ handles[ball_eject_process].ball_left = "done"
             /\ calls' = Append(calls, Call("add_incoming_ball", eject_request,
                                            ball_eject_process, eject_try))
             /\ pc' = "wait_for_eject_confirm"
       /\ (pc' = "wait_for_eject_confirm" /\ pc # pc') =>
             /\ pc = "wait_for_ball_left"
             /\ Len(incoming_balls') = Len(incoming_balls) + 1
       /\ (BallLeftTimeout /\ pc' # pc) =>
             LET h == ball_eject_process
                 r == eject_request
             IN  /\ CountCalls(calls', "eject_failed", h) = 1
                 /\ CountCalls(calls', "eject_done", h) = 0
                 /\ CountCalls(calls', "add_incoming_ball", h) = 0
                 /\ CountOpOf(calls', "failed_eject", r)
                       = CountOpOf(calls, "failed_eject", r) + 1
                 /\ incoming_balls' = incoming_balls
                 /\ pc' \notin {"wait_for_eject_confirm",
                                "late_confirm_or_missing"}]_vars

\* An attempt in its confirmation wait: its handle was opened and then the
\* ejector fired, once, its ball left and its IncomingBall is registered.
C18_Witness ==
    /\ pc = "wait_for_eject_confirm"
    /\ handles[ball_eject_process].ball_left = "done"
    /\ CountCalls(calls, "start_eject", ball_eject_process) = 1
    /\ CountCalls(calls, "eject_one_ball", ball_eject_process) = 1
    /\ CountCalls(calls, "add_incoming_ball", ball_eject_process) = 1
    /\ calls[Len(calls)].op = "add_incoming_ball"

(* ---- C19 --------------------------------------------------------------- *)
\* The target resolved the confirm_future while the IncomingBall registered
\* by the attempt of handle h was registered with it, that is after the
\* ball of that attempt had left (primed: in the state a step leads to).
ConfirmedFor(h) ==
    \E i \in 1..Len(incoming_balls) :
        /\ Registrations[i].handle = h
        /\ incoming_balls[i].confirmed

C20_LostBallFaultEndsWorker ==
    [][exception = "AssertionError" =>
          /\ exception' = "AssertionError"
          /\ pc' = "raised"
          /\ serviced' = serviced
          /\ Len(eject_queue') >= Len(eject_queue)
          /\ SubSeq(eject_queue', 1, Len(eject_queue)) = eject_queue
          /\ handles' = handles
          /\ \A op \in {"start_eject", "eject_one_ball", "eject_done"} :
                CountOp(calls', op) = CountOp(calls, op)
          /\ \A i \in 1..Len(eject_queue') :
                /\ outcome'[eject_queue'[i]] = "queued"
                /\ requests'[eject_queue'[i]].confirm_future = "pending"]_vars

\* The lost-ball fault was raised and a request is waiting in the queue.
C20_Witness ==
    /\ exception = "AssertionError"
    /\ pc = "raised"
    /\ eject_queue # <<>>
    /\ outcome[eject_queue[1]] = "queued"

====
